---- MODULE Spec2Model ----
(***************************************************************************)
(* State-machine model of the UTXO indexer: the UTXO store (db.ts), the    *)
(* block reconciler (index.ts: initialize / startIndexing / indexUTXOs),   *)
(* the mempool reconciler (mempool.ts: mempoolScanner), the chain client   *)
(* (rpc.ts: getBlock / getlatestBlock / getTransaction / sendTransaction), *)
(* the submission and address-query endpoints (server.ts) and the exit and *)
(* restart of the process (signal handlers, startIndexing().catch).        *)
(***************************************************************************)
EXTENDS Integers, Sequences, FiniteSets, TLC

\* ------------------------------------------------------------------------
\* Program constants (scaled down) and model bounds
\* ------------------------------------------------------------------------

\* index.ts: START_HEIGHT (default 3131019), scaled to the first modelled block
START_HEIGHT == 1

\* index.ts: BATCH_SIZE (10 in the source), scaled so that both branches of
\* Math.min(BATCH_SIZE, remainingBlocks) are taken
BATCH_SIZE == 2

\* highest chain tip the node reaches
MaxTip == 4

\* number of failed attempts of one chain-client call explored
MaxAttempts == 3

\* ------------------------------------------------------------------------
\* The chain served by the node (immutable block and transaction data)
\* ------------------------------------------------------------------------

\* values of the `confirmed` field of a stored document; a document written
\* by the block reconciler carries no such field at all
CTrue == "true"
CFalse == "false"
CUndefined == "undefined"

\* a transaction input without txid / vout (coinbase input)
NoTxid == ""
NoVout == -1
\* an output whose scriptPubKey has no addresses
NoAddress == ""

In(txid, vout) == [txid |-> txid, vout |-> vout]
Out(n, valueSat, address) == [n |-> n, valueSat |-> valueSat, address |-> address]
CoinbaseIn == In(NoTxid, NoVout)

\* getrawtransaction(txid, 1).result for every transaction the node knows
TxData ==
  [ c1 |-> [vin |-> <<CoinbaseIn>>, vout |-> <<Out(0, 100, "A"), Out(1, 0, NoAddress)>>],
    t1 |-> [vin |-> <<In("g", 0)>>, vout |-> <<Out(0, 40, "A")>>],
    cb |-> [vin |-> <<CoinbaseIn>>, vout |-> <<Out(0, 0, NoAddress)>>],
    t2 |-> [vin |-> <<In("t1", 0)>>, vout |-> <<Out(0, 30, "B"), Out(1, 10, "A")>>],
    t3 |-> [vin |-> <<In("t2", 0)>>, vout |-> <<Out(0, 0, NoAddress)>>],
    e1 |-> [vin |-> <<In("c1", 0)>>, vout |-> <<Out(0, 90, "B")>>] ]

\* getblock(height).result.tx : the transaction ids of a block, coinbase first
BlockTxs(h) ==
  CASE h = 1 -> <<"c1", "t1">>
    [] h = 2 -> <<"cb", "t2", "t3">>
    [] OTHER -> <<"cb">>

\* transactions that can show up in the node's mempool; e1 is never mined
MempoolTxs == {"t2", "t3", "e1"}

\* the height of the block that contains a transaction (0: never mined)
MinedAt(tx) ==
  CASE tx \in {"c1", "t1"} -> 1
    [] tx \in {"t2", "t3"} -> 2
    [] OTHER -> 0

\* the tip height at which a mempool transaction is first broadcast
BroadcastAt(tx) == IF tx = "e1" THEN 3 ELSE 1

\* `${txid}:${n}`
Id(txid, n) == <<txid, n>>

\* ------------------------------------------------------------------------
\* Extraction of creates and spends from transaction data
\* ------------------------------------------------------------------------

RECURSIVE SeqToSet(_)
SeqToSet(s) == IF s = <<>> THEN {} ELSE {Head(s)} \cup SeqToSet(Tail(s))

RECURSIVE MapVin(_)
\* vin.filter(input => input.txid && input.vout !== undefined).map(id)
MapVin(vin) ==
  IF vin = <<>> THEN <<>>
  ELSE LET i == Head(vin)
       IN  IF i.txid # NoTxid /\ i.vout # NoVout
           THEN <<Id(i.txid, i.vout)>> \o MapVin(Tail(vin))
           ELSE MapVin(Tail(vin))

RECURSIVE MapVoutBlock(_, _, _)
\* index.ts indexUTXOs: outputs with an address become {value, address, id, blockHeight}
MapVoutBlock(tx, vout, blockHeight) ==
  IF vout = <<>> THEN <<>>
  ELSE LET o == Head(vout)
       IN  IF o.address = NoAddress
           THEN MapVoutBlock(tx, Tail(vout), blockHeight)
           ELSE <<[id |-> Id(tx, o.n), value |-> o.valueSat, address |-> o.address,
                   blockHeight |-> blockHeight, confirmed |-> CUndefined]>>
                \o MapVoutBlock(tx, Tail(vout), blockHeight)

RECURSIVE MapVoutMempool(_, _)
\* mempool.ts extractMempoolUTXOs: outputs with an address become unconfirmed UTXOs
MapVoutMempool(tx, vout) ==
  IF vout = <<>> THEN <<>>
  ELSE LET o == Head(vout)
       IN  IF o.address = NoAddress
           THEN MapVoutMempool(tx, Tail(vout))
           ELSE <<[id |-> Id(tx, o.n), value |-> o.valueSat, address |-> o.address,
                   blockHeight |-> 0, confirmed |-> CFalse]>>
                \o MapVoutMempool(tx, Tail(vout))

RECURSIVE BlockInputsFrom(_, _)
\* indexUTXOs: inputs of every transaction of the block except index 0
BlockInputsFrom(txs, index) ==
  IF index > Len(txs) THEN <<>>
  ELSE LET txData == TxData[txs[index]]
       IN  (IF index # 1 /\ Len(txData.vin) > 0 THEN MapVin(txData.vin) ELSE <<>>)
           \o BlockInputsFrom(txs, index + 1)

RECURSIVE BlockOutputsFrom(_, _, _)
\* indexUTXOs: outputs of ALL transactions of the block, coinbase included
BlockOutputsFrom(txs, index, blockHeight) ==
  IF index > Len(txs) THEN <<>>
  ELSE MapVoutBlock(txs[index], TxData[txs[index]].vout, blockHeight)
       \o BlockOutputsFrom(txs, index + 1, blockHeight)

BlockInputs(h) == BlockInputsFrom(BlockTxs(h), 1)
BlockOutputs(h) == BlockOutputsFrom(BlockTxs(h), 1, h)

\* extractMempoolUTXOs(txId): found = getTransaction returned a result; when it
\* did not, reading txData.vin throws and the catch returns empty lists
extractMempoolUTXOs(txId, found) ==
  IF found
  THEN [outputs |-> MapVoutMempool(txId, TxData[txId].vout),
        inputs |-> MapVin(TxData[txId].vin)]
  ELSE [outputs |-> <<>>, inputs |-> <<>>]

\* ------------------------------------------------------------------------
\* UTXO store operations (db.ts); the collection is a set of documents
\* ------------------------------------------------------------------------

HasId(store, id) == \E d \in store : d.id = id

\* one insert into a collection that has no unique index on `id`
InsertOneNoIndex(store, doc) == store \cup {doc}

\* one insert under the unique index on `id`: a duplicate key is rejected
InsertOne(store, doc) == IF HasId(store, doc.id) THEN store ELSE store \cup {doc}

RECURSIVE saveUTXOsOrdered(_, _)
\* insertMany with the default ordered:true stops at the first duplicate key
saveUTXOsOrdered(store, docs) ==
  IF docs = <<>> THEN store
  ELSE IF HasId(store, Head(docs).id) THEN store
       ELSE saveUTXOsOrdered(store \cup {Head(docs)}, Tail(docs))

RECURSIVE saveUTXOs(_, _)
\* insertMany(utxos, {ordered: false}); error 11000 is swallowed
saveUTXOs(store, docs) ==
  IF docs = <<>> THEN store
  ELSE saveUTXOs(InsertOne(store, Head(docs)), Tail(docs))

RECURSIVE saveMempoolUTXOsOverwrite(_, _)
\* an upsert with $set instead of $setOnInsert replaces the existing document
saveMempoolUTXOsOverwrite(store, docs) ==
  IF docs = <<>> THEN store
  ELSE saveMempoolUTXOsOverwrite(
         {d \in store : d.id # Head(docs).id} \cup {Head(docs)}, Tail(docs))

RECURSIVE saveMempoolUTXOs(_, _)
\* bulkWrite of updateOne {filter: {id}, update: {$setOnInsert: utxo}, upsert: true}
saveMempoolUTXOs(store, docs) ==
  IF docs = <<>> THEN store
  ELSE saveMempoolUTXOs(
         IF HasId(store, Head(docs).id) THEN store ELSE store \cup {Head(docs)},
         Tail(docs))

\* deleteMany({id: {$in: utxoIds}, confirmed: false})
deleteMempoolUTXOs(store, ids) ==
  {d \in store : ~(d.id \in ids /\ d.confirmed = CFalse)}

\* a delete that carries the filter of deleteMempoolUTXOs
batchDeleteSpentUTXOsUnconfirmed(store, ids) ==
  {d \in store : ~(d.id \in ids /\ d.confirmed = CFalse)}

\* deleteMany({id: {$in: ids}})
batchDeleteSpentUTXOs(store, ids) == {d \in store : d.id \notin ids}

\* findOne(...)?.blockHeight || 0 ; the checkpoint document is modelled by its
\* blockHeight, 0 when the document does not exist
getIndexingCheckpoint(ckpt) == ckpt

\* a checkpoint write that only inserts: the first record is never replaced
updateIndexingCheckpointInsertOnly(ckpt, blockHeight) ==
  IF ckpt # 0 THEN ckpt ELSE blockHeight

\* updateOne({id: "current_indexing_checkpoint"}, {$set: {blockHeight}},
\* {upsert: true}): the one record with that id holds blockHeight afterwards
updateIndexingCheckpoint(ckpt, blockHeight) == blockHeight

\* a restart that ignores the persisted checkpoint
getIndexingHeightFromStart(ckpt) == START_HEIGHT

\* index.ts getIndexingHeight: the checkpoint when truthy, else START_HEIGHT
getIndexingHeight(ckpt) ==
  IF getIndexingCheckpoint(ckpt) # 0 THEN getIndexingCheckpoint(ckpt) ELSE START_HEIGHT

Min(a, b) == IF a < b THEN a ELSE b

\* indexUTXOs: if (outputs.length > 0) await saveUTXOs(outputs)
indexUTXOsSave(store, h) ==
  IF Len(BlockOutputs(h)) > 0 THEN saveUTXOs(store, BlockOutputs(h)) ELSE store

\* a second half of indexUTXOs that writes the creates after the spends
indexUTXOsDeleteThenSave(store, h) ==
  saveUTXOs(batchDeleteSpentUTXOs(store, SeqToSet(BlockInputs(h))), BlockOutputs(h))

\* indexUTXOs: if (inputs.length > 0) await batchDeleteSpentUTXOs(inputIds)
indexUTXOsDelete(store, h) ==
  IF Len(BlockInputs(h)) > 0
  THEN batchDeleteSpentUTXOs(store, SeqToSet(BlockInputs(h)))
  ELSE store

RECURSIVE CleanPass(_, _, _)
\* for (const height of blockHeights) await indexUTXOs(height): one
\* uninterrupted pass over the heights from..to
CleanPass(store, from, to) ==
  IF from > to THEN store
  ELSE CleanPass(indexUTXOsDelete(indexUTXOsSave(store, from), from), from + 1, to)

\* ------------------------------------------------------------------------
\* State
\* ------------------------------------------------------------------------

VARIABLES
  tip,                \* node: getblockcount
  pending,            \* node: getrawmempool (set of txids)
  evicted,            \* node: transactions dropped from the mempool, never mined
  utxos,              \* store: collection "utxos"
  checkpoint,         \* store: indexing_checkpoint.blockHeight (0: no document)
  currentBlockHeight, \* index.ts
  latestBlockHeight,  \* index.ts
  bpc,                \* block reconciler position
  height,             \* block reconciler: height being indexed in the batch
  processedTxs,       \* mempool.ts
  mpc,                \* mempool reconciler position
  newTxs,             \* mempool reconciler: transactions left in this cycle
  mInputs,            \* mempool reconciler: inputIds of the current transaction
  passes,             \* history: per height, completed indexUTXOs passes (0, 1, 2+)
  mempoolFirst,       \* history: txs whose outputs the mempool path stored first
  rpcPc,              \* chain client: position of the call in flight
  rpcCall,            \* chain client: method and argument of the call
  rpcAttempts,        \* chain client: requests of this call that threw
  rpcReturn,          \* chain client: what the call returned to its caller
  spent,              \* history: ids listed as input by a processed transaction
  lastOp,             \* history: the last operation and what it found
  procState,          \* the indexer process: "running", "exit0" or "exit1"
  memPool,            \* mempool reconciler: the list getRawMemPool returned
  rpcCaller,          \* chain client: the loop that awaits the call in flight
  send,               \* POST /api/send-transaction: the request being served
  query               \* GET /api/utxos/:address: the last request and its answer

vars == <<tip, pending, evicted, utxos, checkpoint, currentBlockHeight,
          latestBlockHeight, bpc, height, processedTxs, mpc, newTxs, mInputs,
          passes, mempoolFirst, rpcPc, rpcCall, rpcAttempts,
          rpcReturn, spent, lastOp, procState, memPool, rpcCaller, send,
          query>>

nodeVars == <<tip, pending, evicted>>
blockVars == <<currentBlockHeight, latestBlockHeight, bpc, height>>
mempoolVars == <<processedTxs, mpc, newTxs, mInputs, memPool>>
rpcVars == <<rpcPc, rpcCall, rpcAttempts, rpcReturn>>
clientVars == <<rpcVars, rpcCaller, send, query>>
storeVars == <<utxos, checkpoint>>
historyVars == <<passes, mempoolFirst, spent>>

Heights == START_HEIGHT..MaxTip
Indexed == {h \in Heights : passes[h] > 0}

\* no submission request is being served
NoSend == [pc |-> "idle", attempts |-> 0, threw |-> FALSE, ret |-> "none",
           status |-> 0, result |-> "none"]

\* no address query has been served
NoQuery == [pc |-> "idle", address |-> "", limit |-> 0, offset |-> 0,
            matched |-> {}, status |-> 0, body |-> <<>>, more |-> "absent"]

Op(kind, tx, h, flag) == [kind |-> kind, tx |-> tx, height |-> h, flag |-> flag]

Init ==
  /\ tip = START_HEIGHT
  /\ pending = {}
  /\ evicted = {}
  /\ utxos = {}
  /\ checkpoint = 0
  /\ currentBlockHeight = 0
  /\ latestBlockHeight = 0
  /\ bpc = "start"
  /\ height = 0
  /\ processedTxs = {}
  /\ mpc = "scan"
  /\ newTxs = <<>>
  /\ mInputs = <<>>
  /\ passes = [h \in Heights |-> 0]
  /\ mempoolFirst = {}
  /\ rpcPc = "idle"
  /\ rpcCall = [method |-> "none", height |-> 0, txId |-> ""]
  /\ rpcAttempts = 0
  /\ rpcReturn = "none"
  /\ spent = {}
  /\ lastOp = Op("init", "", 0, FALSE)
  /\ procState = "running"
  /\ memPool = <<>>
  /\ rpcCaller = "none"
  /\ send = NoSend
  /\ query = NoQuery

\* ------------------------------------------------------------------------
\* The node (environment)
\* ------------------------------------------------------------------------

IsMined(tx) == MinedAt(tx) # 0 /\ MinedAt(tx) <= tip

\* getTransaction(txid) has a result while the node knows the transaction:
\* it is in the node's mempool or in a block
NodeKnows(tx) == tx \in pending \/ IsMined(tx)

Parents(tx) == {TxData[tx].vin[i].txid : i \in 1..Len(TxData[tx].vin)} \ {NoTxid, "g"}

\* a transaction enters the node's mempool once the outputs it spends exist
Announce(tx) ==
  /\ tx \in MempoolTxs \ (pending \cup evicted)
  /\ ~IsMined(tx)
  /\ tip >= BroadcastAt(tx)
  /\ \A p \in Parents(tx) : IsMined(p) \/ p \in pending
  /\ pending' = pending \cup {tx}
  /\ lastOp' = Op("node", "", 0, FALSE)
  /\ UNCHANGED <<procState, clientVars, tip, evicted, utxos, checkpoint, blockVars, mempoolVars,
                 passes, mempoolFirst, spent>>

\* the node accepts block tip+1; its transactions leave the mempool
MineBlock ==
  /\ tip < MaxTip
  /\ tip' = tip + 1
  /\ pending' = pending \ SeqToSet(BlockTxs(tip + 1))
  /\ lastOp' = Op("node", "", 0, FALSE)
  /\ UNCHANGED <<procState, clientVars, evicted, utxos, checkpoint, blockVars, mempoolVars,
                 passes, mempoolFirst, spent>>

\* the node drops a pending transaction that never gets mined
Evict(tx) ==
  /\ tx \in pending
  /\ MinedAt(tx) = 0
  /\ pending' = pending \ {tx}
  /\ evicted' = evicted \cup {tx}
  /\ lastOp' = Op("node", "", 0, FALSE)
  /\ UNCHANGED <<procState, clientVars, tip, utxos, checkpoint, blockVars, mempoolVars,
                 passes, mempoolFirst, spent>>

\* the node drops a pending transaction from its mempool (expiry, size limit);
\* the transaction may be broadcast again later
Drop(tx) ==
  /\ tx \in pending
  /\ pending' = pending \ {tx}
  /\ lastOp' = Op("node", "", 0, FALSE)
  /\ UNCHANGED <<procState, clientVars, tip, evicted, utxos, checkpoint, blockVars,
                 mempoolVars, passes, mempoolFirst, spent>>

\* ------------------------------------------------------------------------
\* Block reconciler (index.ts)
\* ------------------------------------------------------------------------

\* the process is alive and the loop is not awaiting a chain-client call
BlockRuns == procState = "running" /\ rpcCaller # "block"

\* a chain client that blocks the whole process while a call is outstanding
MempoolRunsBlocking == procState = "running" /\ rpcCaller = "none"

MempoolRuns == procState = "running" /\ rpcCaller # "mempool"

\* a batch of BATCH_SIZE heights whatever the distance to the tip
batchSizeWhole(latest, current) == BATCH_SIZE

\* const batchSize = Math.min(BATCH_SIZE, latestBlockHeight - currentBlockHeight)
batchSize(latest, current) == Min(BATCH_SIZE, latest - current)

\* a loop that leaves the batch after its first height
batchDoneAfterOne(h, current, size) == TRUE

\* for (const height of blockHeights): h was the last of the heights
\* current .. current + size - 1
batchDone(h, current, size) == h + 1 >= current + size

\* an advance by the configured batch size whatever the batch held
advanceWhole(current, size) == current + BATCH_SIZE

\* currentBlockHeight += batchSize
advance(current, size) == current + size

\* while (latestBlockHeight > currentBlockHeight && isIndexing): position after
\* the loop test, either the first block of the next batch or the 10 s sleep
\* that precedes the recursive startIndexing()
LoopTest(latest, current) ==
  IF latest > current
  THEN /\ bpc' = "save"
       /\ height' = current
  ELSE /\ bpc' = "start"
       /\ height' = 0

\* startIndexing -> initialize: read the tip, and the checkpoint on first entry
Initialize ==
  /\ BlockRuns
  /\ bpc = "start"
  /\ latestBlockHeight' = tip
  /\ currentBlockHeight' =
       IF currentBlockHeight = 0 THEN getIndexingHeight(checkpoint)
       ELSE currentBlockHeight
  /\ LoopTest(latestBlockHeight', currentBlockHeight')
  /\ lastOp' = Op("initialize", rpcCaller, currentBlockHeight', currentBlockHeight = 0)
  /\ UNCHANGED <<procState, clientVars, nodeVars, utxos, checkpoint, mempoolVars, passes, mempoolFirst, spent>>

\* indexUTXOs(height), first half: getBlock, getTransaction for every tx,
\* then saveUTXOs(outputs) when there are outputs
SaveBlock ==
  /\ BlockRuns
  /\ bpc = "save"
  /\ LET outputs == BlockOutputs(height)
     IN  /\ utxos' = indexUTXOsSave(utxos, height)
         /\ lastOp' = Op("saveBlock", "", height,
                         \E i \in 1..Len(outputs) : HasId(utxos, outputs[i].id))
  /\ bpc' = "delete"
  /\ UNCHANGED <<procState, clientVars, nodeVars, checkpoint, currentBlockHeight, latestBlockHeight,
                 height, mempoolVars, passes, mempoolFirst, spent>>

\* indexUTXOs(height), second half: batchDeleteSpentUTXOs(inputIds) when there
\* are inputs; then the next height of the batch or the checkpoint update
DeleteBlock ==
  /\ BlockRuns
  /\ bpc = "delete"
  /\ LET inputIds == BlockInputs(height)
     IN  /\ utxos' = indexUTXOsDelete(utxos, height)
         /\ spent' = spent \cup SeqToSet(inputIds)
         /\ lastOp' = Op("deleteBlock", "", height,
                         \E i \in 1..Len(inputIds) : HasId(utxos, inputIds[i]))
  /\ passes' = [passes EXCEPT ![height] = IF @ < 2 THEN @ + 1 ELSE @]
  /\ IF ~batchDone(height, currentBlockHeight,
                    batchSize(latestBlockHeight, currentBlockHeight))
     THEN /\ bpc' = "save"
          /\ height' = height + 1
     ELSE /\ bpc' = "ckpt"
          /\ height' = height
  /\ UNCHANGED <<procState, clientVars, nodeVars, checkpoint, currentBlockHeight, latestBlockHeight,
                 mempoolVars, mempoolFirst>>

\* currentBlockHeight += batchSize; updateIndexingCheckpoint(currentBlockHeight)
Checkpoint ==
  /\ BlockRuns
  /\ bpc = "ckpt"
  /\ currentBlockHeight' =
       advance(currentBlockHeight, batchSize(latestBlockHeight, currentBlockHeight))
  /\ checkpoint' = updateIndexingCheckpoint(checkpoint, currentBlockHeight')
  /\ LoopTest(latestBlockHeight, currentBlockHeight')
  /\ lastOp' = Op("checkpoint", "", currentBlockHeight,
                  batchSize(latestBlockHeight, currentBlockHeight) < BATCH_SIZE)
  /\ UNCHANGED <<procState, clientVars, nodeVars, utxos, latestBlockHeight, mempoolVars, passes, mempoolFirst, spent>>

\* ------------------------------------------------------------------------
\* Process exit and restart: all in-memory state is lost, the store is kept
\* ------------------------------------------------------------------------

\* a catch of the batch loop that swallows the error and moves on
onBatchErrorSkip(ckpt, current, size) == current + size

\* catch (error) { logger(...); throw error }: the checkpoint is not written
onBatchError(ckpt, current, size) == ckpt

Restarted ==
  /\ currentBlockHeight' = 0
  /\ latestBlockHeight' = 0
  /\ bpc' = "start"
  /\ height' = 0
  /\ processedTxs' = {}
  /\ mpc' = "scan"
  /\ newTxs' = <<>>
  /\ mInputs' = <<>>
  /\ memPool' = <<>>

\* SIGINT / SIGTERM: the handler sets isIndexing = false and calls
\* process.exit(0) at once, wherever the two loops are
Crash ==
  /\ procState = "running"
  /\ Restarted
  /\ procState' = "exit0"
  /\ lastOp' = Op("crash", "", 0, bpc \in {"save", "delete", "ckpt"})
  /\ UNCHANGED <<clientVars, nodeVars, utxos, checkpoint, passes, mempoolFirst, spent>>

\* the process is killed inside insertMany: only some documents were written
CrashInSave ==
  /\ BlockRuns
  /\ bpc = "save"
  /\ Restarted
  /\ procState' = "exit0"
  /\ \E part \in SUBSET SeqToSet(BlockOutputs(height)) :
       /\ part # {}
       /\ part # SeqToSet(BlockOutputs(height))
       /\ utxos' = utxos \cup {d \in part : ~HasId(utxos, d.id)}
  /\ lastOp' = Op("crashInSave", "", 0, TRUE)
  /\ UNCHANGED <<clientVars, nodeVars, checkpoint, passes, mempoolFirst, spent>>

\* getBlock answered without `result`: indexUTXOs throws, the batch loop
\* rethrows, startIndexing().catch logs and calls process.exit(1)
BlockFetchFailed ==
  /\ BlockRuns
  /\ bpc = "save"
  /\ Restarted
  /\ procState' = "exit1"
  /\ checkpoint' = onBatchError(checkpoint, currentBlockHeight,
                                batchSize(latestBlockHeight, currentBlockHeight))
  /\ lastOp' = Op("blockFetchFailed", "", currentBlockHeight, height > currentBlockHeight)
  /\ UNCHANGED <<clientVars, nodeVars, utxos, passes, mempoolFirst, spent>>

\* saveUTXOs (an error other than 11000), batchDeleteSpentUTXOs or
\* updateIndexingCheckpoint throws: same path as above, nothing was written
\* by the failing call
StoreWriteFailed ==
  /\ BlockRuns
  /\ bpc \in {"save", "delete", "ckpt"}
  /\ Restarted
  /\ procState' = "exit1"
  /\ checkpoint' = onBatchError(checkpoint, currentBlockHeight,
                                batchSize(latestBlockHeight, currentBlockHeight))
  /\ lastOp' = Op("storeWriteFailed", "", currentBlockHeight,
                  bpc # "save" \/ height > currentBlockHeight)
  /\ UNCHANGED <<clientVars, nodeVars, utxos, passes, mempoolFirst, spent>>

\* the operator (or a supervisor) starts the program again: module load runs
\* startIndexing() with all in-memory state at its initial values
ProcessStart ==
  /\ procState # "running"
  /\ procState' = "running"
  /\ lastOp' = Op("processStart", "", 0, procState = "exit1")
  /\ UNCHANGED <<clientVars, nodeVars, storeVars, blockVars, mempoolVars, historyVars>>

\* ------------------------------------------------------------------------
\* Mempool reconciler (mempool.ts)
\* ------------------------------------------------------------------------

Perms(S) == {s \in [1..Cardinality(S) -> S] : \A i, j \in 1..Cardinality(S) :
                                                 s[i] = s[j] => i = j}

\* the ids currently in the node's mempool, in the node's order
getRawMemPool == Perms(pending)

\* after a transaction of the cycle: the next one, or the 5 s sleep
NextTx(rest) ==
  /\ newTxs' = rest
  /\ mpc' = IF rest = <<>> THEN "scan" ELSE "save"
  /\ mInputs' = <<>>

\* a scan that forgets every processed id whenever some id left the mempool
removedTxsClearAll(processed, list) ==
  IF processed \subseteq SeqToSet(list) THEN {} ELSE processed

\* removedTxs = Array.from(processedTxs).filter((tx) => !currentMempoolSet.has(tx))
removedTxs(processed, list) == {tx \in processed : tx \notin SeqToSet(list)}

\* one cycle start: drop the ids that left the mempool, list the new ones
Scan ==
  /\ MempoolRuns
  /\ mpc = "scan"
  /\ \E list \in getRawMemPool :
       /\ memPool' = list
       /\ processedTxs' = processedTxs \ removedTxs(processedTxs, list)
       /\ newTxs' = SelectSeq(list, LAMBDA tx : tx \notin processedTxs')
       /\ lastOp' = Op("scan", rpcCaller, 0, processedTxs' # processedTxs)
  /\ mpc' = IF newTxs' = <<>> THEN "scan" ELSE "save"
  /\ mInputs' = <<>>
  /\ UNCHANGED <<procState, clientVars, nodeVars, utxos, checkpoint, blockVars, passes, mempoolFirst, spent>>

\* extractMempoolUTXOs(txId), then saveMempoolUTXOs(outputs) when there are
\* outputs; without inputs the transaction is marked processed at once
MempoolSave ==
  /\ MempoolRuns
  /\ mpc = "save"
  /\ LET txId == Head(newTxs)
         ex == extractMempoolUTXOs(txId, NodeKnows(txId))
     IN  /\ utxos' = IF Len(ex.outputs) > 0
                     THEN saveMempoolUTXOs(utxos, ex.outputs)
                     ELSE utxos
         /\ lastOp' = Op("mempoolSave", txId, 0,
                         \E i \in 1..Len(ex.outputs) : HasId(utxos, ex.outputs[i].id))
         /\ mempoolFirst' =
              IF /\ Len(ex.outputs) > 0
                 /\ \A i \in 1..Len(ex.outputs) : ~HasId(utxos, ex.outputs[i].id)
              THEN mempoolFirst \cup {txId}
              ELSE mempoolFirst
         /\ IF Len(ex.inputs) > 0
            THEN /\ mInputs' = ex.inputs
                 /\ mpc' = "deleteMempool"
                 /\ UNCHANGED <<newTxs, processedTxs>>
            ELSE /\ processedTxs' = processedTxs \cup {txId}
                 /\ NextTx(Tail(newTxs))
  /\ UNCHANGED <<procState, memPool, clientVars, nodeVars, checkpoint, blockVars, passes, spent>>

\* deleteMempoolUTXOs(inputIds)
MempoolDeleteUnconfirmed ==
  /\ MempoolRuns
  /\ mpc = "deleteMempool"
  /\ utxos' = deleteMempoolUTXOs(utxos, SeqToSet(mInputs))
  /\ mpc' = "deleteConfirmed"
  /\ lastOp' = Op("mempoolDeleteUnconfirmed", "", 0, utxos' # utxos)
  /\ UNCHANGED <<procState, memPool, clientVars, nodeVars, checkpoint, blockVars, processedTxs, newTxs, mInputs,
                 passes, mempoolFirst, spent>>

\* batchDeleteSpentUTXOs(inputIds); processedTxs.add(txId)
MempoolDeleteConfirmed ==
  /\ MempoolRuns
  /\ mpc = "deleteConfirmed"
  /\ utxos' = batchDeleteSpentUTXOs(utxos, SeqToSet(mInputs))
  /\ processedTxs' = processedTxs \cup {Head(newTxs)}
  /\ spent' = spent \cup SeqToSet(mInputs)
  /\ lastOp' = Op("mempoolDone", Head(newTxs), 0, utxos' # utxos)
  /\ NextTx(Tail(newTxs))
  /\ UNCHANGED <<procState, memPool, clientVars, nodeVars, checkpoint, blockVars, passes,
                 mempoolFirst>>

\* a store call of the cycle throws: the catch of mempoolScanner logs, sleeps
\* and starts the next cycle; the current transaction is not marked processed
MempoolCycleFailed ==
  /\ MempoolRuns
  /\ mpc \in {"save", "deleteMempool", "deleteConfirmed"}
  /\ mpc' = "scan"
  /\ newTxs' = <<>>
  /\ mInputs' = <<>>
  /\ lastOp' = Op("mempoolCycleFailed", "", 0, FALSE)
  /\ UNCHANGED <<procState, memPool, clientVars, nodeVars, utxos, checkpoint, blockVars, processedTxs,
                 passes, mempoolFirst, spent>>

\* ------------------------------------------------------------------------
\* Chain client (rpc.ts): getBlock, getlatestBlock, getTransaction
\* ------------------------------------------------------------------------

TxIds == {"c1", "t1", "cb", "t2", "t3", "e1"}

RpcCalls ==
  {[method |-> "getBlock", height |-> h, txId |-> ""] : h \in Heights}
  \cup {[method |-> "getlatestBlock", height |-> 0, txId |-> ""]}
  \cup {[method |-> "getTransaction", height |-> 0, txId |-> t] : t \in TxIds}

NoCall == [method |-> "none", height |-> 0, txId |-> ""]

\* a catch that gives up after two failed attempts and hands the error back
onThrowLimited(attempts) ==
  IF attempts >= 2 THEN [pc |-> "returned", ret |-> "error"]
  ELSE [pc |-> "sleep", ret |-> "none"]

\* catch (error) { logger(...); await sleep 5000; return await <same call> }
onThrow(attempts) == [pc |-> "sleep", ret |-> "none"]

\* return response.data (getBlock, getlatestBlock) / response.data.result
\* (getTransaction): whatever arrived is handed to the caller, with or
\* without `result`
onResponse(hasResult) == IF hasResult THEN "result" ELSE "noResult"

RpcFrame == UNCHANGED <<nodeVars, storeVars, blockVars, mempoolVars,
                        historyVars, lastOp, procState, send, query>>

\* a caller invokes one of the read operations
RpcInvoke(call) ==
  /\ rpcPc = "idle"
  /\ rpcCaller' = "none"
  /\ rpcPc' = "post"
  /\ rpcCall' = call
  /\ rpcAttempts' = 0
  /\ rpcReturn' = "none"
  /\ RpcFrame

\* the chain-client call a loop makes at its current position
LoopCall(loop) ==
  IF loop = "block"
  THEN IF bpc = "start" THEN [method |-> "getlatestBlock", height |-> 0, txId |-> ""]
       ELSE [method |-> "getBlock", height |-> height, txId |-> ""]
  ELSE [method |-> "getTransaction", height |-> 0, txId |-> Head(newTxs)]

\* one of the two loops awaits a chain-client call whose request is still
\* outstanding: initialize (getlatestBlock), indexUTXOs (getBlock) or
\* extractMempoolUTXOs (getTransaction); the loop resumes when the call returns
LoopInvoke(loop) ==
  /\ procState = "running"
  /\ rpcPc = "idle"
  /\ rpcCaller = "none"
  /\ \/ loop = "block" /\ bpc \in {"start", "save"}
     \/ loop = "mempool" /\ mpc = "save"
  /\ rpcPc' = "post"
  /\ rpcCall' = LoopCall(loop)
  /\ rpcAttempts' = 0
  /\ rpcReturn' = "none"
  /\ rpcCaller' = loop
  /\ RpcFrame

\* axios.post resolves: a 2xx response, whose body may or may not hold `result`
RpcResponds(hasResult) ==
  /\ rpcPc = "post"
  /\ rpcPc' = "returned"
  /\ rpcReturn' = onResponse(hasResult)
  /\ UNCHANGED <<rpcCall, rpcAttempts>>
  /\ UNCHANGED rpcCaller
  /\ RpcFrame

\* axios.post rejects: network error, timeout or non-2xx status
RpcThrows ==
  /\ rpcPc = "post"
  /\ rpcAttempts < MaxAttempts
  /\ rpcAttempts' = rpcAttempts + 1
  /\ rpcPc' = onThrow(rpcAttempts').pc
  /\ rpcReturn' = onThrow(rpcAttempts').ret
  /\ UNCHANGED rpcCall
  /\ UNCHANGED rpcCaller
  /\ RpcFrame

\* the 5 s delay is over: the recursive call posts the same query again
RpcRetry ==
  /\ rpcPc = "sleep"
  /\ rpcPc' = "post"
  /\ UNCHANGED <<rpcCall, rpcAttempts, rpcReturn>>
  /\ UNCHANGED rpcCaller
  /\ RpcFrame

\* the caller has taken the returned value
RpcConsumed ==
  /\ rpcPc = "returned"
  /\ rpcPc' = "idle"
  /\ rpcCall' = NoCall
  /\ rpcAttempts' = 0
  /\ rpcReturn' = "none"
  /\ rpcCaller' = "none"
  /\ RpcFrame

\* ------------------------------------------------------------------------
\* Transaction submission (rpc.ts sendTransaction, server.ts POST handler)
\* ------------------------------------------------------------------------

SendFrame == UNCHANGED <<nodeVars, storeVars, blockVars, mempoolVars,
                         historyVars, lastOp, procState, rpcVars, rpcCaller,
                         query>>

\* return response.data.result: the txid, or undefined when the answer holds
\* no `result`
onSendResponse(hasResult) == IF hasResult THEN "txid" ELSE "undefined"

\* catch (error) { logger(...) }: nothing is returned and nothing rethrown
onSendThrow == "undefined"

\* try { result = await sendTransaction(transaction); res.json({ result }) }
\* catch { res.status(500).json({ error }) }
handlerResponse(thrown, ret) ==
  IF thrown THEN [status |-> 500, result |-> "error"]
  ELSE [status |-> 200, result |-> ret]

\* a client posts a raw transaction; sendTransaction issues its axios.post
SendRequest ==
  /\ send.pc = "idle"
  /\ send' = [NoSend EXCEPT !.pc = "post", !.attempts = 1]
  /\ SendFrame

\* axios.post resolves
SendResponds(hasResult) ==
  /\ send.pc = "post"
  /\ send' = [send EXCEPT !.pc = "returned", !.ret = onSendResponse(hasResult)]
  /\ SendFrame

\* axios.post rejects: the node refused the transaction, or the request failed
SendThrows ==
  /\ send.pc = "post"
  /\ send' = [send EXCEPT !.pc = "returned", !.threw = TRUE, !.ret = onSendThrow]
  /\ SendFrame

\* the handler answers the client; sendTransaction never throws to it
SendHandlerResponds ==
  /\ send.pc = "returned"
  /\ send' = [send EXCEPT !.pc = "responded",
                          !.status = handlerResponse(FALSE, send.ret).status,
                          !.result = handlerResponse(FALSE, send.ret).result]
  /\ SendFrame

\* the request is over
SendDone ==
  /\ send.pc = "responded"
  /\ send' = NoSend
  /\ SendFrame

\* ------------------------------------------------------------------------
\* Address query (db.ts getUTXOs, server.ts GET handler)
\* ------------------------------------------------------------------------

\* an argument the caller did not pass (undefined)
NoArg == -1

\* addresses, limits and offsets a client asks for
QueryAddresses == {"A", "B", "C"}
QueryLimits == {1, 2}
QueryOffsets == {0, 1}

\* sort({ value: -1 }): every order the sort may produce (ties are not ordered)
SortedByValueDesc(S) ==
  {s \in Perms(S) : \A i \in 1..(Len(s) - 1) : s[i].value >= s[i + 1].value}

\* skip(offset).limit(limit)
Page(s, limit, offset) == SubSeq(s, offset + 1, Min(offset + limit, Len(s)))

\* getUTXOs(address, limit, offset): find({address}).sort({value: -1})
\* .skip(offset).limit(limit).toArray(); with an argument that is undefined
\* the driver either rejects the cursor option (getUTXOs rethrows) or leaves
\* the option unset
getUTXOs(store, address, limit, offset) ==
  LET matched == {d \in store : d.address = address}
  IN  IF limit = NoArg \/ offset = NoArg
      THEN {[threw |-> TRUE, docs |-> <<>>]}
           \cup {[threw |-> FALSE, docs |-> s] : s \in SortedByValueDesc(matched)}
      ELSE {[threw |-> FALSE, docs |-> Page(s, limit, offset)] :
              s \in SortedByValueDesc(matched)}

\* utxos.map((utxo) => ({value, txid: id.split(":")[0],
\* vout: parseInt(id.split(":")[1]), address, blockHeight}))
utxosResponse(docs) ==
  [i \in 1..Len(docs) |->
     [value |-> docs[i].value, txid |-> docs[i].id[1], vout |-> docs[i].id[2],
      address |-> docs[i].address, blockHeight |-> docs[i].blockHeight]]

\* the handler: 500 when getUTXOs throws, 404 with an error body when the
\* array is empty, else 200 with the mapped array as the whole body
queryResponse(outcome) ==
  IF outcome.threw THEN [status |-> 500, body |-> <<>>]
  ELSE IF Len(outcome.docs) = 0 THEN [status |-> 404, body |-> <<>>]
  ELSE [status |-> 200, body |-> utxosResponse(outcome.docs)]

QueryFrame == UNCHANGED <<nodeVars, storeVars, blockVars, mempoolVars,
                          historyVars, lastOp, procState, rpcVars, rpcCaller,
                          send>>

\* GET /api/utxos/:address from a client that wants `limit` records from
\* `offset` on; the handler reads req.params.address only and calls
\* getUTXOs(address)
GetUtxos(address, limit, offset) ==
  /\ procState = "running"
  /\ \E outcome \in getUTXOs(utxos, address, NoArg, NoArg) :
       query' = [pc |-> "responded", address |-> address, limit |-> limit,
                 offset |-> offset,
                 matched |-> {d \in utxos : d.address = address},
                 status |-> queryResponse(outcome).status,
                 body |-> queryResponse(outcome).body,
                 more |-> "absent"]
  /\ QueryFrame

\* ------------------------------------------------------------------------
\* Specifications
\* ------------------------------------------------------------------------

Next ==
  \/ \E tx \in MempoolTxs : Announce(tx)
  \/ MineBlock
  \/ \E tx \in MempoolTxs : Evict(tx)
  \/ Initialize
  \/ SaveBlock
  \/ DeleteBlock
  \/ Checkpoint
  \/ Crash
  \/ CrashInSave
  \/ BlockFetchFailed
  \/ StoreWriteFailed
  \/ ProcessStart
  \/ Scan
  \/ MempoolSave
  \/ MempoolDeleteUnconfirmed
  \/ MempoolDeleteConfirmed
  \/ MempoolCycleFailed

Spec == Init /\ [][Next]_vars

\* the block reconciler alone (with the node and process restarts)
NextBlock ==
  \/ MineBlock
  \/ Initialize
  \/ SaveBlock
  \/ DeleteBlock
  \/ Checkpoint
  \/ Crash
  \/ CrashInSave
  \/ BlockFetchFailed
  \/ StoreWriteFailed
  \/ ProcessStart

SpecBlock == Init /\ [][NextBlock]_vars

\* the block reconciler with failing batches only (no signal, no kill)
NextBatchFailure ==
  \/ MineBlock
  \/ Initialize
  \/ SaveBlock
  \/ DeleteBlock
  \/ Checkpoint
  \/ BlockFetchFailed
  \/ StoreWriteFailed
  \/ ProcessStart

SpecBatchFailure == Init /\ [][NextBatchFailure]_vars

\* the mempool reconciler alone, with a node whose mempool also drops
\* transactions that are broadcast again later
NextMempool ==
  \/ \E tx \in MempoolTxs : Announce(tx)
  \/ MineBlock
  \/ \E tx \in MempoolTxs : Evict(tx)
  \/ \E tx \in MempoolTxs : Drop(tx)
  \/ Scan
  \/ MempoolSave
  \/ MempoolDeleteUnconfirmed
  \/ MempoolDeleteConfirmed
  \/ MempoolCycleFailed

SpecMempool == Init /\ [][NextMempool]_vars

\* the while (true) loop of mempoolScanner keeps running: every await of a
\* store call and every 5 s sleep returns
FairSpecMempool ==
  /\ SpecMempool
  /\ WF_vars(Scan)
  /\ WF_vars(MempoolSave)
  /\ WF_vars(MempoolDeleteUnconfirmed)
  /\ WF_vars(MempoolDeleteConfirmed)

\* both loops in one running process, each able to wait on a chain-client
\* call that the node may never answer; every pending transaction gets mined
NextStall ==
  \/ \E tx \in MempoolTxs \ {"e1"} : Announce(tx)
  \/ MineBlock
  \/ Initialize
  \/ SaveBlock
  \/ DeleteBlock
  \/ Checkpoint
  \/ Scan
  \/ MempoolSave
  \/ MempoolDeleteUnconfirmed
  \/ MempoolDeleteConfirmed
  \/ \E loop \in {"block", "mempool"} : LoopInvoke(loop)
  \/ \E hasResult \in BOOLEAN : RpcResponds(hasResult)
  \/ RpcThrows
  \/ RpcRetry
  \/ RpcConsumed

SpecStall == Init /\ [][NextStall]_vars

\* the event loop runs every continuation that is ready: each loop takes its
\* next step unless it awaits a call, and the retry timer of a call fires
FairSpecStall ==
  /\ SpecStall
  /\ WF_vars(Initialize) /\ WF_vars(SaveBlock)
  /\ WF_vars(DeleteBlock) /\ WF_vars(Checkpoint)
  /\ WF_vars(Scan) /\ WF_vars(MempoolSave)
  /\ WF_vars(MempoolDeleteUnconfirmed) /\ WF_vars(MempoolDeleteConfirmed)
  /\ WF_vars(RpcRetry)

\* both loops in a process that keeps running, with a node that answers
\* every call
NextBlockLive ==
  \/ \E tx \in MempoolTxs \ {"e1"} : Announce(tx)
  \/ MineBlock
  \/ Initialize
  \/ SaveBlock
  \/ DeleteBlock
  \/ Checkpoint
  \/ Scan
  \/ MempoolSave
  \/ MempoolDeleteUnconfirmed
  \/ MempoolDeleteConfirmed

SpecBlockLive == Init /\ [][NextBlockLive]_vars

\* every await of startIndexing returns: the store calls, the 1 s sleep after
\* a batch and the 10 s sleep before the recursive startIndexing()
FairSpecBlockLive ==
  /\ SpecBlockLive
  /\ WF_vars(Initialize) /\ WF_vars(SaveBlock)
  /\ WF_vars(DeleteBlock) /\ WF_vars(Checkpoint)

\* the block reconciler and the address query endpoint
NextQuery ==
  \/ MineBlock
  \/ Initialize
  \/ SaveBlock
  \/ DeleteBlock
  \/ Checkpoint
  \/ \E address \in QueryAddresses, limit \in QueryLimits, offset \in QueryOffsets :
       GetUtxos(address, limit, offset)

SpecQuery == Init /\ [][NextQuery]_vars

\* one chain-client read operation and the node's answers to it
NextRpc ==
  \/ \E call \in RpcCalls : RpcInvoke(call)
  \/ \E hasResult \in BOOLEAN : RpcResponds(hasResult)
  \/ RpcThrows
  \/ RpcRetry
  \/ RpcConsumed
  \/ SendRequest
  \/ \E hasResult \in BOOLEAN : SendResponds(hasResult)
  \/ SendThrows
  \/ SendHandlerResponds
  \/ SendDone

SpecRpc == Init /\ [][NextRpc]_vars

\* the setTimeout of the catch block always fires
FairSpecRpc == SpecRpc /\ WF_vars(RpcRetry)

TypeOK ==
  /\ tip \in START_HEIGHT..MaxTip
  /\ pending \subseteq MempoolTxs
  /\ checkpoint \in 0..MaxTip
  /\ bpc \in {"start", "save", "delete", "ckpt"}
  /\ mpc \in {"scan", "save", "deleteMempool", "deleteConfirmed"}

\* ------------------------------------------------------------------------
\* C1
\* ------------------------------------------------------------------------

\* C1: in every reachable state, an id listed as an input by a transaction
\* that indexUTXOs or mempoolScanner has processed is not in the store
C1_SpentNeverStored == \A id \in spent : ~HasId(utxos, id)

\* ------------------------------------------------------------------------
\* C2
\* ------------------------------------------------------------------------

\* the addressable outputs of a transaction
AddressableOuts(tx) ==
  {TxData[tx].vout[i] : i \in {j \in 1..Len(TxData[tx].vout) :
                                  TxData[tx].vout[j].address # NoAddress}}

\* C2: for a transaction whose outputs the mempool reconciler stored first and
\* whose block (height h) the block reconciler has just processed, the store
\* holds exactly one document per addressable output (that no processed
\* transaction spends), with confirmed = true and blockHeight = h
C2_MempoolThenBlockConfirmed ==
  lastOp.kind = "deleteBlock" =>
    \A T \in mempoolFirst : MinedAt(T) = lastOp.height =>
      \A o \in AddressableOuts(T) : Id(T, o.n) \notin spent =>
        /\ Cardinality({d \in utxos : d.id = Id(T, o.n)}) = 1
        /\ \A d \in utxos : d.id = Id(T, o.n) =>
              d.confirmed = CTrue /\ d.blockHeight = lastOp.height

\* ------------------------------------------------------------------------
\* C3
\* ------------------------------------------------------------------------

\* C3: the persisted checkpoint never decreases, whatever the sequence of
\* batches, failed batches and restarts
C3_CheckpointNeverDecreases == [][checkpoint' >= checkpoint]_vars

\* a checkpoint written by a run that resumed from a persisted checkpoint
C3_Witness ==
  /\ \E h \in Heights : passes[h] >= 2
  /\ lastOp.kind = "checkpoint"
  /\ lastOp.height > START_HEIGHT
  /\ checkpoint > lastOp.height

\* ------------------------------------------------------------------------
\* C4
\* ------------------------------------------------------------------------

\* C4: every height from the start height up to (excluding) the persisted
\* checkpoint has had its creates and its spends applied to the store
C4_CheckpointCoversCommitted ==
  \A h \in Heights : h < checkpoint => passes[h] > 0

\* a crash inside a batch that had already applied a block beyond the checkpoint
C4_Witness ==
  /\ lastOp.kind = "crash"
  /\ lastOp.flag
  /\ checkpoint > START_HEIGHT
  /\ \E h \in Heights : h >= checkpoint /\ passes[h] > 0

\* ------------------------------------------------------------------------
\* C5
\* ------------------------------------------------------------------------

\* C5: when a batch completes, however often its heights were processed (in
\* part or in full) by runs that crashed before the checkpoint advanced, the
\* store equals the result of one clean pass over the same heights
C5_ReprocessingIdempotent ==
  lastOp.kind = "checkpoint" => utxos = CleanPass({}, START_HEIGHT, checkpoint - 1)

\* a batch completed whose heights had been processed before by a crashed run
C5_Witness ==
  /\ lastOp.kind = "checkpoint"
  /\ \E h \in Heights : h < checkpoint /\ h >= lastOp.height /\ passes[h] >= 2

\* ------------------------------------------------------------------------
\* C6
\* ------------------------------------------------------------------------

C7_MempoolCreateKeepsExisting ==
  [][lastOp'.kind = "mempoolSave" => \A d \in utxos : d \in utxos']_vars

\* the mempool create met a document that the block reconciler had indexed
C7_Witness ==
  /\ lastOp.kind = "mempoolSave"
  /\ lastOp.flag
  /\ \E d \in utxos : /\ d.id[1] = lastOp.tx
                      /\ d.confirmed # CFalse
                      /\ d.blockHeight = MinedAt(lastOp.tx)

\* ------------------------------------------------------------------------
\* C8
\* ------------------------------------------------------------------------

\* the documents the scenario expects for block H
ExpectedConfirmed(H) ==
  UNION {{[id |-> Id(BlockTxs(H)[k], o.n), value |-> o.valueSat,
           address |-> o.address, blockHeight |-> H, confirmed |-> CTrue] :
            o \in AddressableOuts(BlockTxs(H)[k])} : k \in 1..Len(BlockTxs(H))}

\* C8: after the block reconciler has processed the single block H from an
\* empty store, the store holds exactly the addressable outputs of all its
\* transactions (coinbase included) with confirmed = true and blockHeight = H,
\* and the checkpoint is H + 1
C8_BlockFromEmptyStore ==
  (/\ lastOp.kind = "checkpoint"
   /\ lastOp.height = START_HEIGHT
   /\ lastOp.flag) =>
    /\ utxos = ExpectedConfirmed(START_HEIGHT)
    /\ checkpoint = START_HEIGHT + 1

\* ------------------------------------------------------------------------
\* C9
\* ------------------------------------------------------------------------

\* C9: every stored document with confirmed = true has blockHeight > 0
C9_ConfirmedHasHeight ==
  \A d \in utxos : d.confirmed = CTrue => d.blockHeight > 0

\* ------------------------------------------------------------------------
\* C10
\* ------------------------------------------------------------------------

\* C10 as stated: a read operation never returns a failure or a value
\* without `result` to its caller
C10_NeverReturnsWithoutResult ==
  rpcPc = "returned" => rpcReturn = "result"

\* C10 as amended: a request that throws is never handed to the caller, it is
\* always followed by another request of the same call; what a call returns is
\* the response that arrived, with or without `result`
C10_ThrownRequestsRetried ==
  /\ [](rpcReturn # "error")
  /\ [](rpcPc = "returned" => rpcReturn \in {"result", "noResult"})
  /\ [](rpcAttempts > 0 => rpcPc \in {"sleep", "post", "returned"})
  /\ ((rpcPc = "sleep") ~> (rpcPc = "post"))

\* a call that was retried twice and then returned a response without result
C10_Witness ==
  /\ rpcPc = "returned"
  /\ rpcAttempts >= 2
  /\ rpcReturn = "noResult"

\* ------------------------------------------------------------------------
\* C11
\* ------------------------------------------------------------------------

\* the height a starting process resumes from, given the persisted checkpoint
ResumeHeight(ckpt) == IF ckpt # 0 THEN ckpt ELSE START_HEIGHT

\* the step in which a batch fails
BatchFails ==
  procState = "running" /\ lastOp'.kind \in {"blockFetchFailed", "storeWriteFailed"}

\* C11 as stated: when a block of a batch fails, the checkpoint keeps its
\* value and the block reconciler stays in its outer loop, where it retries
\* the same batch on its next cycle
C11_LoopRetriesFailedBatch ==
  [][BatchFails => /\ checkpoint' = checkpoint
                   /\ procState' = "running"
                   /\ bpc' = "start"]_vars

\* C11 as amended: when a block of a batch fails, the checkpoint keeps its
\* value, the batch had started at that checkpoint, and the process exits
\* with code 1; a process started afterwards resumes from the checkpoint, so
\* its first batch starts at the height the failed batch started at
C11_FailedBatchExitsRestartRetries ==
  [][/\ BatchFails => /\ checkpoint' = checkpoint
                      /\ procState' = "exit1"
                      /\ currentBlockHeight = ResumeHeight(checkpoint)
     /\ (lastOp'.kind = "initialize" /\ currentBlockHeight = 0) =>
          /\ currentBlockHeight' = ResumeHeight(checkpoint)
          /\ latestBlockHeight' > currentBlockHeight' =>
               (bpc' = "save" /\ height' = ResumeHeight(checkpoint))]_vars

\* a restarted process is indexing again a height that a failed batch had
\* already applied, beyond a checkpoint written by an earlier batch
C11_Witness ==
  /\ procState = "running"
  /\ bpc = "delete"
  /\ checkpoint > START_HEIGHT
  /\ height >= checkpoint
  /\ passes[height] >= 1

\* ------------------------------------------------------------------------
\* C12
\* ------------------------------------------------------------------------

\* the block reconciler has applied part of its batch to the store and has
\* not yet written the checkpoint
BatchPartlyApplied ==
  bpc \in {"delete", "ckpt"} \/ (bpc = "save" /\ height > currentBlockHeight)

\* C12: the process exits on SIGINT / SIGTERM only when no batch is partly
\* applied with its checkpoint unadvanced and no mempool cycle is in flight
C12_SignalLetsInFlightWorkFinish ==
  [][(procState = "running" /\ lastOp'.kind = "crash" /\ procState' = "exit0") =>
       (~BatchPartlyApplied /\ mpc = "scan")]_vars

\* ------------------------------------------------------------------------
\* C13
\* ------------------------------------------------------------------------

\* C13: saveUTXOs called by indexUTXOs with outputs of which some ids are
\* already stored: every stored document is kept as it is, every output whose
\* id was absent is inserted, nothing else is added, no two documents share an
\* id, and indexUTXOs goes on to its delete step
C13_SaveUTXOsSkipsDuplicates ==
  [][(bpc = "save" /\ lastOp'.kind = "saveBlock") =>
       LET outputs == BlockOutputs(height)
       IN  /\ \A d \in utxos : d \in utxos'
           /\ \A i \in 1..Len(outputs) :
                ~HasId(utxos, outputs[i].id) => outputs[i] \in utxos'
           /\ utxos' \ utxos \subseteq SeqToSet(outputs)
           /\ \A d1, d2 \in utxos' : d1.id = d2.id => d1 = d2
           /\ procState' = "running"
           /\ bpc' = "delete"]_vars

\* saveUTXOs met a document that the mempool reconciler had stored for an
\* output of the block, and inserted another output of the same block
C13_Witness ==
  /\ lastOp.kind = "saveBlock"
  /\ lastOp.flag
  /\ bpc = "delete"
  /\ \E d1, d2 \in utxos :
       /\ d1.id[1] \in SeqToSet(BlockTxs(lastOp.height))
       /\ d1.confirmed = CFalse
       /\ d2.id[1] \in SeqToSet(BlockTxs(lastOp.height))
       /\ d2.confirmed = CUndefined
       /\ d2.blockHeight = lastOp.height

\* ------------------------------------------------------------------------
\* C14
\* ------------------------------------------------------------------------

RECURSIVE MempoolCycle(_, _)
\* the store after one mempool cycle that starts with an empty processedTxs
\* and is handed `list` by getRawMemPool: every listed id is a new transaction
MempoolCycle(store, list) ==
  IF list = <<>> THEN store
  ELSE LET ex == extractMempoolUTXOs(Head(list), NodeKnows(Head(list)))
           inputIds == SeqToSet(ex.inputs)
           saved == IF Len(ex.outputs) > 0
                    THEN saveMempoolUTXOs(store, ex.outputs) ELSE store
           deleted == IF Len(ex.inputs) > 0
                      THEN batchDeleteSpentUTXOs(
                             deleteMempoolUTXOs(saved, inputIds), inputIds)
                      ELSE saved
       IN  MempoolCycle(deleted, Tail(list))

\* a mempool cycle has just completed and the node's mempool still holds
\* exactly the ids of the list that cycle was handed
CycleCompleted ==
  /\ procState = "running"
  /\ mpc = "scan"
  /\ lastOp.kind \in {"scan", "mempoolSave", "mempoolDone"}
  /\ SeqToSet(memPool) = pending

\* C14: after a completed mempool cycle, a restart (empty processedTxs)
\* followed by a cycle over the same pending list leaves the store as it was
C14_RestartCycleKeepsStore ==
  CycleCompleted => MempoolCycle(utxos, memPool) = utxos

\* ------------------------------------------------------------------------
\* C15
\* ------------------------------------------------------------------------

\* C15: the step of a cycle that finds processed ids missing from the fetched
\* list removes exactly those ids from processedTxs and leaves every stored
\* document and the checkpoint as they were
C15_ScanOnlyForgetsLeftIds ==
  [][(mpc = "scan" /\ lastOp'.kind = "scan") =>
       /\ processedTxs' = {tx \in processedTxs : tx \in SeqToSet(memPool')}
       /\ utxos' = utxos
       /\ checkpoint' = checkpoint]_vars

\* a scan dropped a processed id that had left the mempool and kept another
\* one that is still listed, with documents in the store
C15_Witness ==
  /\ lastOp.kind = "scan"
  /\ lastOp.flag
  /\ processedTxs # {}
  /\ utxos # {}

\* ------------------------------------------------------------------------
\* C16
\* ------------------------------------------------------------------------

\* the store holds an unconfirmed document created by transaction tx
HasUnconfirmedOf(tx) == \E d \in utxos : d.id[1] = tx /\ d.confirmed = CFalse

\* C16: an unconfirmed document whose creating transaction was evicted from
\* the mempool without ever being mined is eventually absent from the store
C16_EvictedRecordEventuallyAbsent ==
  \A tx \in MempoolTxs :
    (tx \in evicted /\ HasUnconfirmedOf(tx)) ~> ~HasUnconfirmedOf(tx)

\* ------------------------------------------------------------------------
\* C17
\* ------------------------------------------------------------------------

\* C17: a submission whose request failed was attempted once and is answered
\* to the client with a failure result, never with the answer of a success
C17_SendFailureSurfaced ==
  (send.pc = "responded" /\ send.threw) =>
    (send.attempts = 1 /\ send.status # 200)

\* ------------------------------------------------------------------------
\* C19
\* ------------------------------------------------------------------------

\* the chain-client call awaited by `loop` has not returned
Stalled(loop) == rpcCaller = loop /\ rpcPc \in {"post", "sleep"}

\* C19: if the call awaited by the block reconciler never returns, the
\* mempool reconciler still starts cycle after cycle; if the call awaited by
\* the mempool reconciler never returns, the block reconciler still does
C19_LoopsIndependent ==
  /\ <>[]Stalled("block") => []<>(lastOp.kind = "scan")
  /\ <>[]Stalled("mempool") => []<>(lastOp.kind = "initialize")

\* a mempool cycle started while the block reconciler was waiting for a call
\* that had already failed twice
C19_Witness ==
  /\ Stalled("block")
  /\ rpcAttempts >= 2
  /\ lastOp.kind = "scan"
  /\ lastOp.tx = "block"

\* ------------------------------------------------------------------------
\* C20
\* ------------------------------------------------------------------------

\* ids of the delete the block reconciler has prepared from the block it read
\* and has not yet committed
BlockWriteInFlight ==
  IF procState = "running" /\ bpc = "delete"
  THEN SeqToSet(BlockInputs(height)) ELSE {}

\* ids of the deletes the mempool reconciler has prepared from the
\* transaction it read and has not yet committed
MempoolWriteInFlight ==
  IF procState = "running" /\ mpc \in {"deleteMempool", "deleteConfirmed"}
  THEN SeqToSet(mInputs) ELSE {}

\* C20: in no reachable state are both reconcilers between reading and
\* committing a write to the same UTXO id
C20_NoSameIdInFlight ==
  BlockWriteInFlight \cap MempoolWriteInFlight = {}

\* ------------------------------------------------------------------------
\* C21
\* ------------------------------------------------------------------------

\* C21: the answer to a query for (address, limit, offset) holds exactly the
\* records of the address ranked offset+1 .. offset+limit by descending
\* value, and its page metadata tells whether more records remain
C21_QueryReturnsPage ==
  (query.pc = "responded" /\ query.matched # {}) =>
    /\ \E s \in SortedByValueDesc(query.matched) :
         query.body = utxosResponse(Page(s, query.limit, query.offset))
    /\ query.more =
         (IF Cardinality(query.matched) > query.offset + query.limit
          THEN "true" ELSE "false")

\* ------------------------------------------------------------------------
\* C22
\* ------------------------------------------------------------------------

\* C22: a query for an address without any stored document is answered with
\* an empty result and no error status
C22_NotFoundIsEmptyResult ==
  (query.pc = "responded" /\ query.matched = {}) =>
    (query.status = 200 /\ query.body = <<>>)

\* ------------------------------------------------------------------------
\* C23
\* ------------------------------------------------------------------------

C24_NoCreateAfterSpend ==
  [][\A id \in spent : ~HasId(utxos, id) => ~HasId(utxos', id)]_vars

\* ------------------------------------------------------------------------
\* C25
\* ------------------------------------------------------------------------

\* C25: the persisted checkpoint changes only in the step that ends a batch;
\* that step moves it from the height the batch started at by the number n
\* of heights of the batch, n = min(BATCH_SIZE, tip read - start), and every
\* height below the new checkpoint has been processed
C25_CheckpointOnlyAtBatchEnd ==
  [][checkpoint' # checkpoint =>
       /\ bpc = "ckpt"
       /\ lastOp'.kind = "checkpoint"
       /\ currentBlockHeight = ResumeHeight(checkpoint)
       /\ checkpoint' = currentBlockHeight
                          + Min(BATCH_SIZE, latestBlockHeight - currentBlockHeight)
       /\ \A h \in Heights : h < checkpoint' => passes[h] > 0]_vars

\* a full batch of BATCH_SIZE heights has just moved a checkpoint that an
\* earlier batch had written
C25_Witness ==
  /\ lastOp.kind = "checkpoint"
  /\ ~lastOp.flag
  /\ lastOp.height > START_HEIGHT
  /\ checkpoint = lastOp.height + BATCH_SIZE

\* ------------------------------------------------------------------------
\* C27
\* ------------------------------------------------------------------------

\* C27: a starting process begins at the persisted checkpoint when one is set
\* and at START_HEIGHT when none is set (an unset checkpoint reads as 0), the
\* first height it processes is that height, it never works below the
\* persisted checkpoint, and a checkpoint read after updateIndexingCheckpoint(h)
\* returns h
C27_StartsAtCheckpoint ==
  /\ [][(lastOp'.kind = "initialize" /\ lastOp'.flag) =>
          /\ currentBlockHeight' = (IF checkpoint # 0 THEN checkpoint ELSE START_HEIGHT)
          /\ currentBlockHeight' >= checkpoint
          /\ bpc' = "save" => height' = currentBlockHeight']_vars
  /\ [](currentBlockHeight # 0 => currentBlockHeight >= checkpoint)
  /\ [](bpc \in {"save", "delete"} => height >= checkpoint)
  /\ [][lastOp'.kind = "checkpoint" =>
          IF checkpoint' # 0 THEN checkpoint' = currentBlockHeight'
          ELSE currentBlockHeight' = 0]_vars

\* a process started again after a checkpoint write, about to process the
\* height of that checkpoint
C27_Witness ==
  /\ lastOp.kind = "initialize"
  /\ lastOp.flag
  /\ checkpoint > START_HEIGHT
  /\ currentBlockHeight = checkpoint
  /\ bpc = "save"
  /\ height = checkpoint

\* ------------------------------------------------------------------------
\* C28
\* ------------------------------------------------------------------------

\* the creates and the spends of a mempool transaction are in effect in a store
TxApplied(store, tx) ==
  LET ex == extractMempoolUTXOs(tx, TRUE)
  IN  /\ \A i \in 1..Len(ex.outputs) : HasId(store, ex.outputs[i].id)
      /\ \A i \in 1..Len(ex.inputs) : ~HasId(store, ex.inputs[i].id)

\* C28: a transaction id enters processedTxs only in a step after which the
\* creates and the spends of that transaction have all been applied to the
\* store; a transaction whose detail could not be fetched is not marked
C28_ProcessedOnlyWhenApplied ==
  [][\A tx \in processedTxs' \ processedTxs : TxApplied(utxos', tx)]_vars

\* ------------------------------------------------------------------------
\* C29
\* ------------------------------------------------------------------------

\* C29: the store after a mempool cycle is the same for every order in which
\* the new transaction ids of the cycle can appear in the pending list
C29_CycleOrderIndependent ==
  mpc = "save" =>
    \A p \in Perms(SeqToSet(newTxs)) :
      MempoolCycle(utxos, p) = MempoolCycle(utxos, newTxs)

\* ------------------------------------------------------------------------
\* C26
\* ------------------------------------------------------------------------

\* C26: if the chain tip stays at height T, every block from the start height
\* up to and including T is eventually processed by the block reconciler
C26_EveryBlockUpToTipProcessed ==
  \A T \in Heights :
    <>[](tip = T) => <>(\A h \in START_HEIGHT..T : passes[h] > 0)

\* ------------------------------------------------------------------------
\* C18
\* ------------------------------------------------------------------------

\* C18: the persisted checkpoint never exceeds the tip the block reconciler
\* of the running process read last (latestBlockHeight, 0 before its first
\* read), nor the node's tip, which is at least every tip read before
C18_CheckpointAtMostTipRead ==
  /\ latestBlockHeight # 0 => checkpoint <= latestBlockHeight
  /\ checkpoint <= tip

\* a batch of fewer than BATCH_SIZE heights brought the checkpoint to the tip
\* that was read
C18_Witness ==
  /\ lastOp.kind = "checkpoint"
  /\ lastOp.flag
  /\ checkpoint = latestBlockHeight
  /\ checkpoint > START_HEIGHT + BATCH_SIZE

====
